---- MODULE Spec2Model ----
(***************************************************************************)
(* A model of kellner: the bounded worker pool and the directory scanner   *)
(* (main.go), the client-id derivation (x509.go), the startup walk of      *)
(* main() and the Packages handler (http part of x509.go).                 *)
(*                                                                         *)
(* Strings whose bytes matter are sequences: file names are sequences of   *)
(* one-character strings, certificate values and outputs are sequences of  *)
(* byte codes (0..255).                                                    *)
(***************************************************************************)
EXTENDS Integers, Sequences, FiniteSets, TLC

VARIABLES
    \* ---- ScanDirectoryForPackages / WorkerPool (main.go) ----
    dirState,   \* "ok" | "noopen" (os.Open fails) | "nolist" (Readdirnames fails)
    entries,    \* result of root.Readdirnames(-1): a sequence of distinct names
    parseOk,    \* the names for which NewIpkgFromFile succeeds
    nworkers,   \* the limit given to NewWorkerPool
    pcMain,     \* position of the goroutine running ScanDirectoryForPackages
    idx,        \* position of the range loop in entries (1-based)
    worker,     \* number of values buffered in the channel pool.worker
    wg,         \* counter of the embedded sync.WaitGroup
    task,       \* position of the goroutine started for each name
    mu,         \* holder of the PackageIndex mutex, or NoName
    tmp,        \* per goroutine: the map contents read by an assignment in progress
    Entries,    \* key set of packages.Entries
    retErr,     \* error returned by ScanDirectoryForPackages: "nil" | "open" | "readdir"
    logged,     \* names whose parse error has been logged
    \* ---- clientIdByName (x509.go) ----
    subject,    \* cert.Subject.Names: a sequence of [Type, Value]
    idPc,       \* "call" | "done"
    clientId,   \* the string returned by clientIdByName
    \* ---- printClientIdTo and its caller in main ----
    certFile,   \* [readable, blocks]: the PEM blocks of the file
    rawBytes,   \* the blocks not yet decoded
    printPc,    \* "read" | "loop" | "done"
    written,    \* the lines written to w
    printErr,   \* the error returned: "pending" | "nil" | "err"
    exitStatus, \* exit status of the process, -1 while it runs
    \* ---- main: -dump, the listener and the startup walk (main.go) ----
    dump,       \* the flag -dump
    bindOk,     \* net.Listen succeeds
    tls,        \* "off" (no -ssl-cert/-ssl-key) | "ok" | "bad" (initTLS fails)
    fs,         \* the tree under -root: path -> [kind, n]
    mainPc,     \* "start" | "tls" | "walk" | "serving" | "exited"
    walkPos,    \* index in WalkOrder of the entry visited last
    mux,        \* the registrations of rootMuxer: [pattern, handler, dir]
    indices,    \* the list of mux paths of the package directories
    scanLog,    \* the directories whose scan error was logged
    errMsg,     \* what the process wrote before it ended: "none" | "error" | "panic"
    mainExit,   \* exit status of the process, -1 while it runs
    \* ---- AttachHttpHandler and its handlers (x509.go, http part) ----
    pkgs,               \* key set of the frozen index
    gzipper,            \* "GzGzipPipe" | "GzGolang"
    attached,           \* AttachHttpHandler has run
    packages_content,   \* the three buffers
    packages_content_gz,
    packages_stamps,
    resp                \* the response to the request handled last

scanVars == <<dirState, entries, parseOk, nworkers, pcMain, idx, worker, wg,
              task, mu, tmp, Entries, retErr, logged>>

idVars == <<subject, idPc, clientId>>

printVars == <<certFile, rawBytes, printPc, written, printErr, exitStatus>>

mainVars == <<dump, bindOk, tls, fs, mainPc, walkPos, mux, indices, scanLog,
              errMsg, mainExit>>

httpVars == <<pkgs, gzipper, attached, packages_content, packages_content_gz,
              packages_stamps, resp>>

vars == <<scanVars, idVars, printVars, mainVars, httpVars>>

notScan == <<idVars, printVars, mainVars, httpVars>>

notId == <<scanVars, printVars, mainVars, httpVars>>

notPrint == <<scanVars, idVars, mainVars, httpVars>>

notMain == <<scanVars, idVars, printVars, httpVars>>

notHttp == <<scanVars, idVars, printVars, mainVars>>

----------------------------------------------------------------------------
(* Bounds *)

MaxFiles == 3
MaxWorkers == 2
MaxAttrs == 2
MaxBlocks == 2
MaxRecs == 1

----------------------------------------------------------------------------
(* Helpers *)

Range(s) == {s[k] : k \in DOMAIN s}

----------------------------------------------------------------------------
(* Directory entries and path.Ext *)

\* the file names a directory listing is drawn from
\* (in the order the listings below keep them)
NameList == <<"a.ipk", "b.ipk.bak", "c.ipk", "ipk", "z.ipk">>

NameSample == Range(NameList)

\* the listings of at most n names; the goroutines are symmetric in the
\* names, so one order per set of names is kept
Listings(n) ==
    {SelectSeq(NameList, LAMBDA x : x \in S) :
        S \in {T \in SUBSET NameSample : Cardinality(T) <= n}}

NoName == "-"

\* the bytes of a name
Chars(name) ==
    CASE name = "a.ipk"     -> <<"a", ".", "i", "p", "k">>
      [] name = "b.ipk.bak" -> <<"b", ".", "i", "p", "k", ".", "b", "a", "k">>
      [] name = "c.ipk"     -> <<"c", ".", "i", "p", "k">>
      [] name = "ipk"       -> <<"i", "p", "k">>
      [] name = "z.ipk"     -> <<"z", ".", "i", "p", "k">>
      [] OTHER              -> <<>>

\* path.Ext: the suffix beginning at the final dot in the final
\* slash-separated element of path; empty if there is no dot
RECURSIVE ExtFrom(_, _)
ExtFrom(s, k) ==
    IF k < 1 \/ s[k] = "/" THEN <<>>
    ELSE IF s[k] = "." THEN SubSeq(s, k, Len(s))
    ELSE ExtFrom(s, k - 1)

Ext(s) == ExtFrom(s, Len(s))

DotIpk == <<".", "i", "p", "k">>

\* the test of the scan loop: path.Ext(entry) != ".ipk" skips the entry
IsIpk(name) == Ext(Chars(name)) = DotIpk

----------------------------------------------------------------------------
(* clientIdByName, typeValsToBytes, cleanPkixNameBytes (x509.go) *)

\* lookup table: object identifier -> key (as bytes)
oidToKeys ==
    << [oid |-> <<2, 5, 4, 6>>,  key |-> <<67>>],        \* "C"
       [oid |-> <<2, 5, 4, 10>>, key |-> <<79>>],        \* "O"
       [oid |-> <<2, 5, 4, 11>>, key |-> <<79, 85>>],    \* "OU"
       [oid |-> <<2, 5, 4, 3>>,  key |-> <<67, 78>>],    \* "CN"
       [oid |-> <<2, 5, 4, 5>>,  key |-> <<83, 78>>],    \* "SN"
       [oid |-> <<2, 5, 4, 7>>,  key |-> <<76>>],        \* "L"
       [oid |-> <<2, 5, 4, 8>>,  key |-> <<80>>],        \* "P"
       [oid |-> <<2, 5, 4, 9>>,  key |-> <<83>>],        \* "S"
       [oid |-> <<2, 5, 4, 17>>, key |-> <<80, 67>>] >>  \* "PC"

\* the inner loop of typeValsToBytes: the key of the first table entry whose
\* oid equals type, "" if there is none
RECURSIVE lookupKey(_, _)
lookupKey(type, j) ==
    IF j > Len(oidToKeys) THEN <<>>
    ELSE IF /\ Len(type) = 4
            /\ type[1] = oidToKeys[j].oid[1]
            /\ type[2] = oidToKeys[j].oid[2]
            /\ type[3] = oidToKeys[j].oid[3]
            /\ type[4] = oidToKeys[j].oid[4]
         THEN oidToKeys[j].key
         ELSE lookupKey(type, j + 1)

\* mutant: '.' is kept as well
cleanPkixNameBytesKeepDot(in) ==
    [k \in 1..Len(in) |->
        LET c == in[k]
        IN  IF \/ 48 <= c /\ c <= 57
               \/ 97 <= c /\ c <= 122
               \/ 65 <= c /\ c <= 90
               \/ c = 95 \/ c = 45 \/ c = 46
            THEN c ELSE 95]

\* replace any [^a-zA-Z0-9_-] by a '_'
cleanPkixNameBytes(in) ==
    [k \in 1..Len(in) |->
        LET c == in[k]
        IN  IF \/ 48 <= c /\ c <= 57
               \/ 97 <= c /\ c <= 122
               \/ 65 <= c /\ c <= 90
               \/ c = 95 \/ c = 45
            THEN c ELSE 95]

\* the outer loop of typeValsToBytes from entry i on, buf being the buffer
RECURSIVE typeValsLoop(_, _, _, _)
typeValsLoop(names, i, buf, cleanValues) ==
    IF i > Len(names) THEN buf
    ELSE LET entry == names[i]
             key == lookupKey(entry.Type, 1)
             withComma == IF Len(buf) > 0 THEN Append(buf, 44) ELSE buf
             oldLen == Len(withComma)
             printed == withComma \o key \o <<61>> \o entry.Value
             from == oldLen + Len(key) + 1
             cleaned == SubSeq(printed, 1, from)
                            \o cleanPkixNameBytes(SubSeq(printed, from + 1, Len(printed)))
         IN  IF key = <<>> THEN typeValsLoop(names, i + 1, buf, cleanValues)
             ELSE typeValsLoop(names, i + 1,
                               IF cleanValues THEN cleaned ELSE printed,
                               cleanValues)

typeValsToBytes(names, cleanValues) == typeValsLoop(names, 1, <<>>, cleanValues)

clientIdByName(name) == typeValsToBytes(name, TRUE)

\* object identifiers certificates are drawn from: the nine of the table, and
\* surname (2.5.4.4), a five-arc and a three-arc identifier, which are not
OidSample ==
    {oidToKeys[j].oid : j \in 1..Len(oidToKeys)}
        \cup {<<2, 5, 4, 4>>, <<2, 5, 4, 6, 1>>, <<2, 5, 4>>}

\* attribute values certificates are drawn from
ValueSample ==
    { <<>>,
      <<116, 101, 115, 116, 32, 117, 115, 101, 114, 33>>,    \* "test user!"
      <<65, 99, 109, 101, 32, 67, 111, 46>>,                 \* "Acme Co."
      <<47, 48, 57, 58, 64, 65, 90, 91, 96, 97, 122, 123, 95, 45,
        44, 61, 195, 169, 0, 255>> }    \* "/09:@AZ[`az{_-,=", e-acute, NUL, 0xff

AttrSample == [Type : OidSample, Value : ValueSample]

RECURSIVE SeqsUpTo(_, _)
SeqsUpTo(S, n) ==
    IF n = 0 THEN {<<>>}
    ELSE LET shorter == SeqsUpTo(S, n - 1)
         IN  shorter \cup {Append(q, x) : q \in {u \in shorter : Len(u) = n - 1},
                                          x \in S}

IdInit ==
    /\ subject \in SeqsUpTo(AttrSample, MaxAttrs)
    /\ idPc = "call"
    /\ clientId = <<>>

IdIdle == subject = <<>> /\ idPc = "idle" /\ clientId = <<>>

\* one call of clientIdByName(&cert.Subject)
ClientIdCall ==
    /\ idPc = "call"
    /\ clientId' = clientIdByName(subject)
    /\ idPc' = "done"
    /\ UNCHANGED subject
    /\ UNCHANGED notId

----------------------------------------------------------------------------
(* printClientIdTo (x509.go) and main's -client-id-for branch (main.go) *)

\* subjects of the certificates a file may hold
SubjectSample ==
    { <<>>,
      << [Type |-> <<2, 5, 4, 10>>, Value |-> <<65, 99, 109, 101, 32, 67, 111, 46>>],
         [Type |-> <<2, 5, 4, 3>>,
          Value |-> <<116, 101, 115, 116, 32, 117, 115, 101, 114, 33>>] >> }

\* a PEM block: its type, the number of its headers, whether its bytes parse
\* as a certificate, and the subject of that certificate
BlockSample ==
    [Type : {"CERTIFICATE", "RSA PRIVATE KEY"}, Headers : {0, 1},
     parses : BOOLEAN, Subject : SubjectSample]

PrintInit ==
    /\ certFile \in [readable : BOOLEAN, blocks : SeqsUpTo(BlockSample, MaxBlocks)]
    /\ (~certFile.readable => certFile.blocks = <<>>)
    /\ rawBytes = <<>>
    /\ printPc = "read"
    /\ written = <<>>
    /\ printErr = "pending"
    /\ exitStatus = -1

PrintIdle ==
    /\ certFile = [readable |-> FALSE, blocks |-> <<>>]
    /\ rawBytes = <<>> /\ printPc = "idle" /\ written = <<>>
    /\ printErr = "pending" /\ exitStatus = -1

\* ioutil.ReadFile fails: return err
ReadFileErr ==
    /\ printPc = "read" /\ ~certFile.readable
    /\ printErr' = "err"
    /\ printPc' = "done"
    /\ UNCHANGED <<certFile, rawBytes, written, exitStatus>>
    /\ UNCHANGED notPrint

ReadFileOk ==
    /\ printPc = "read" /\ certFile.readable
    /\ rawBytes' = certFile.blocks
    /\ printPc' = "loop"
    /\ UNCHANGED <<certFile, written, printErr, exitStatus>>
    /\ UNCHANGED notPrint

\* pem.Decode finds no further block: break; cert == nil: return an error
DecodeNil ==
    /\ printPc = "loop" /\ rawBytes = <<>>
    /\ printErr' = "err"
    /\ printPc' = "done"
    /\ UNCHANGED <<certFile, rawBytes, written, exitStatus>>
    /\ UNCHANGED notPrint

\* a block that is no CERTIFICATE or has headers: continue
DecodeSkip ==
    /\ printPc = "loop" /\ rawBytes # <<>>
    /\ Head(rawBytes).Type # "CERTIFICATE" \/ Head(rawBytes).Headers # 0
    /\ rawBytes' = Tail(rawBytes)
    /\ UNCHANGED <<certFile, printPc, written, printErr, exitStatus>>
    /\ UNCHANGED notPrint

\* x509.ParseCertificate fails: return nil
ParseCertificateErr ==
    /\ printPc = "loop" /\ rawBytes # <<>>
    /\ Head(rawBytes).Type = "CERTIFICATE" /\ Head(rawBytes).Headers = 0
    /\ ~Head(rawBytes).parses
    /\ rawBytes' = Tail(rawBytes)
    /\ printErr' = "nil"
    /\ printPc' = "done"
    /\ UNCHANGED <<certFile, written, exitStatus>>
    /\ UNCHANGED notPrint

\* the certificate parses: break; the client id is written, return nil
ParseCertificateOk ==
    /\ printPc = "loop" /\ rawBytes # <<>>
    /\ Head(rawBytes).Type = "CERTIFICATE" /\ Head(rawBytes).Headers = 0
    /\ Head(rawBytes).parses
    /\ rawBytes' = Tail(rawBytes)
    /\ written' = Append(written, clientIdByName(Head(rawBytes).Subject))
    /\ printErr' = "nil"
    /\ printPc' = "done"
    /\ UNCHANGED <<certFile, exitStatus>>
    /\ UNCHANGED notPrint

\* main: an error is reported and the process exits with 1, otherwise main
\* returns
PrintExit ==
    /\ printPc = "done" /\ exitStatus = -1
    /\ exitStatus' = (IF printErr = "err" THEN 1 ELSE 0)
    /\ UNCHANGED <<certFile, rawBytes, printPc, written, printErr>>
    /\ UNCHANGED notPrint


----------------------------------------------------------------------------
(* ScanDirectoryForPackages and the WorkerPool *)

ScanInit ==
    /\ dirState \in {"ok", "noopen", "nolist"}
    /\ nworkers \in 1..MaxWorkers
    /\ entries \in (IF dirState = "ok" THEN Listings(MaxFiles)
                                       ELSE {<<>>})
    /\ parseOk \in SUBSET Range(entries)
    /\ pcMain = "open"
    /\ idx = 1
    /\ worker = 0
    /\ wg = 0
    /\ task = [n \in NameSample |-> "none"]
    /\ mu = NoName
    /\ tmp = [n \in NameSample |-> {}]
    /\ Entries = {}
    /\ retErr = "nil"
    /\ logged = {}

\* the scanner is not running
ScanIdle ==
    /\ dirState = "ok" /\ entries = <<>> /\ parseOk = {} /\ nworkers = 1
    /\ pcMain = "idle" /\ idx = 1 /\ worker = 0 /\ wg = 0
    /\ task = [n \in NameSample |-> "none"]
    /\ mu = NoName
    /\ tmp = [n \in NameSample |-> {}]
    /\ Entries = {} /\ retErr = "nil" /\ logged = {}

\* os.Open(dir) fails: return nil, error
OpenFail ==
    /\ pcMain = "open" /\ dirState = "noopen"
    /\ pcMain' = "ret" /\ retErr' = "open"
    /\ UNCHANGED notScan
    /\ UNCHANGED <<dirState, entries, parseOk, nworkers, idx, worker, wg, task,
                   mu, tmp, Entries, logged>>

\* root.Readdirnames(-1) fails: return nil, error
ReaddirFail ==
    /\ pcMain = "open" /\ dirState = "nolist"
    /\ pcMain' = "ret" /\ retErr' = "readdir"
    /\ UNCHANGED notScan
    /\ UNCHANGED <<dirState, entries, parseOk, nworkers, idx, worker, wg, task,
                   mu, tmp, Entries, logged>>

\* the directory was listed; the index and the pool are created
OpenOk ==
    /\ pcMain = "open" /\ dirState = "ok"
    /\ pcMain' = "loop"
    /\ UNCHANGED notScan
    /\ UNCHANGED <<dirState, entries, parseOk, nworkers, idx, worker, wg, task,
                   mu, tmp, Entries, retErr, logged>>

\* range loop: an entry whose extension is not ".ipk" is skipped
LoopSkip ==
    /\ pcMain = "loop" /\ idx <= Len(entries)
    /\ ~IsIpk(entries[idx])
    /\ idx' = idx + 1
    /\ UNCHANGED notScan
    /\ UNCHANGED <<dirState, entries, parseOk, nworkers, pcMain, worker, wg, task,
                   mu, tmp, Entries, retErr, logged>>

\* mutant: the send never blocks (an unbounded channel)
HireSendUnbounded ==
    /\ pcMain = "loop" /\ idx <= Len(entries)
    /\ IsIpk(entries[idx])
    /\ worker' = worker + 1
    /\ pcMain' = "add"
    /\ UNCHANGED notScan
    /\ UNCHANGED <<dirState, entries, parseOk, nworkers, idx, wg, task,
                   mu, tmp, Entries, retErr, logged>>

\* Hire, first statement: pool.worker <- true blocks while the buffer is full
HireSend ==
    /\ pcMain = "loop" /\ idx <= Len(entries)
    /\ IsIpk(entries[idx])
    /\ worker < nworkers
    /\ worker' = worker + 1
    /\ pcMain' = "add"
    /\ UNCHANGED notScan
    /\ UNCHANGED <<dirState, entries, parseOk, nworkers, idx, wg, task,
                   mu, tmp, Entries, retErr, logged>>

\* mutant: Hire forgets pool.Add(1)
HireNoAdd ==
    /\ pcMain = "add"
    /\ pcMain' = "go"
    /\ UNCHANGED notScan
    /\ UNCHANGED <<dirState, entries, parseOk, nworkers, idx, worker, wg, task,
                   mu, tmp, Entries, retErr, logged>>

\* Hire, second statement: pool.Add(1); Hire returns
HireAdd ==
    /\ pcMain = "add"
    /\ wg' = wg + 1
    /\ pcMain' = "go"
    /\ UNCHANGED notScan
    /\ UNCHANGED <<dirState, entries, parseOk, nworkers, idx, worker, task,
                   mu, tmp, Entries, retErr, logged>>

\* go func(name string) {...}(entry): the parse task starts
Go ==
    /\ pcMain = "go"
    /\ task' = [task EXCEPT ![entries[idx]] = "parse"]
    /\ idx' = idx + 1
    /\ pcMain' = "loop"
    /\ UNCHANGED notScan
    /\ UNCHANGED <<dirState, entries, parseOk, nworkers, worker, wg,
                   mu, tmp, Entries, retErr, logged>>

\* the range loop is over
LoopEnd ==
    /\ pcMain = "loop" /\ idx > Len(entries)
    /\ pcMain' = "wait"
    /\ UNCHANGED notScan
    /\ UNCHANGED <<dirState, entries, parseOk, nworkers, idx, worker, wg, task,
                   mu, tmp, Entries, retErr, logged>>

\* mutant: the scan returns without waiting for the pool to drain
WaitEarly ==
    /\ pcMain = "wait"
    /\ pcMain' = "ret"
    /\ UNCHANGED notScan
    /\ UNCHANGED <<dirState, entries, parseOk, nworkers, idx, worker, wg, task,
                   mu, tmp, Entries, retErr, logged>>

\* workers.Wait() returns when the WaitGroup counter is zero; return packages, nil
Wait ==
    /\ pcMain = "wait"
    /\ wg = 0
    /\ pcMain' = "ret"
    /\ UNCHANGED notScan
    /\ UNCHANGED <<dirState, entries, parseOk, nworkers, idx, worker, wg, task,
                   mu, tmp, Entries, retErr, logged>>

\* NewIpkgFromFile succeeds
ParseOk(n) ==
    /\ task[n] = "parse" /\ n \in parseOk
    /\ task' = [task EXCEPT ![n] = "lock"]
    /\ UNCHANGED notScan
    /\ UNCHANGED <<dirState, entries, parseOk, nworkers, pcMain, idx, worker, wg,
                   mu, tmp, Entries, retErr, logged>>

\* mutant: the error path returns without releasing the pool slot (no defer)
ParseErrNoRelease(n) ==
    /\ task[n] = "parse" /\ n \notin parseOk
    /\ logged' = logged \cup {n}
    /\ task' = [task EXCEPT ![n] = "exit"]
    /\ UNCHANGED notScan
    /\ UNCHANGED <<dirState, entries, parseOk, nworkers, pcMain, idx, worker, wg,
                   mu, tmp, Entries, retErr>>

\* NewIpkgFromFile fails: the error is logged, the function returns and the
\* deferred workers.Release() runs
ParseErr(n) ==
    /\ task[n] = "parse" /\ n \notin parseOk
    /\ logged' = logged \cup {n}
    /\ task' = [task EXCEPT ![n] = "release"]
    /\ UNCHANGED notScan
    /\ UNCHANGED <<dirState, entries, parseOk, nworkers, pcMain, idx, worker, wg,
                   mu, tmp, Entries, retErr>>

\* mutant: the insert is not guarded by the mutex
LockNoExclusion(n) ==
    /\ task[n] = "lock"
    /\ mu' = n
    /\ task' = [task EXCEPT ![n] = "read"]
    /\ UNCHANGED notScan
    /\ UNCHANGED <<dirState, entries, parseOk, nworkers, pcMain, idx, worker, wg,
                   tmp, Entries, retErr, logged>>

\* packages.Lock()
Lock(n) ==
    /\ task[n] = "lock"
    /\ mu = NoName
    /\ mu' = n
    /\ task' = [task EXCEPT ![n] = "read"]
    /\ UNCHANGED notScan
    /\ UNCHANGED <<dirState, entries, parseOk, nworkers, pcMain, idx, worker, wg,
                   tmp, Entries, retErr, logged>>

\* packages.Entries[name] = ipkg is not atomic: the map is read ...
MapRead(n) ==
    /\ task[n] = "read"
    /\ tmp' = [tmp EXCEPT ![n] = Entries]
    /\ task' = [task EXCEPT ![n] = "write"]
    /\ UNCHANGED notScan
    /\ UNCHANGED <<dirState, entries, parseOk, nworkers, pcMain, idx, worker, wg,
                   mu, Entries, retErr, logged>>

\* ... and written back with the new key
MapWrite(n) ==
    /\ task[n] = "write"
    /\ Entries' = tmp[n] \cup {n}
    /\ tmp' = [tmp EXCEPT ![n] = {}]
    /\ task' = [task EXCEPT ![n] = "unlock"]
    /\ UNCHANGED notScan
    /\ UNCHANGED <<dirState, entries, parseOk, nworkers, pcMain, idx, worker, wg,
                   mu, retErr, logged>>

\* packages.Unlock(); the function returns and the deferred Release runs
Unlock(n) ==
    /\ task[n] = "unlock"
    /\ mu' = (IF mu = n THEN NoName ELSE mu)
    /\ task' = [task EXCEPT ![n] = "release"]
    /\ UNCHANGED notScan
    /\ UNCHANGED <<dirState, entries, parseOk, nworkers, pcMain, idx, worker, wg,
                   tmp, Entries, retErr, logged>>

\* Release, first statement: pool.Done()
ReleaseDone(n) ==
    /\ task[n] = "release"
    /\ wg' = wg - 1
    /\ task' = [task EXCEPT ![n] = "recv"]
    /\ UNCHANGED notScan
    /\ UNCHANGED <<dirState, entries, parseOk, nworkers, pcMain, idx, worker,
                   mu, tmp, Entries, retErr, logged>>

\* Release, second statement: <-pool.worker; the goroutine ends
ReleaseRecv(n) ==
    /\ task[n] = "recv"
    /\ worker > 0
    /\ worker' = worker - 1
    /\ task' = [task EXCEPT ![n] = "exit"]
    /\ UNCHANGED notScan
    /\ UNCHANGED <<dirState, entries, parseOk, nworkers, pcMain, idx, wg,
                   mu, tmp, Entries, retErr, logged>>

\* one goroutine started by the scan loop
TaskStep(n) ==
    \/ ParseOk(n)
    \/ ParseErr(n)
    \/ Lock(n)
    \/ MapRead(n)
    \/ MapWrite(n)
    \/ Unlock(n)
    \/ ReleaseDone(n)
    \/ ReleaseRecv(n)

\* the goroutine running ScanDirectoryForPackages
ScanMain ==
    \/ OpenFail
    \/ ReaddirFail
    \/ OpenOk
    \/ LoopSkip
    \/ HireSend
    \/ HireAdd
    \/ Go
    \/ LoopEnd
    \/ Wait

----------------------------------------------------------------------------
(* main: -dump mode, the listener, the startup walk (main.go) *)

\* the entries that may exist under -root, as paths relative to it, in the
\* lexical order filepath.Walk visits them
WalkOrder == <<"", "/feed", "/feed/Packages", "/main", "/opkg.conf">>

Paths == Range(WalkOrder)

Parent(p) == IF p = "/feed/Packages" THEN "/feed" ELSE ""

\* what an entry is: "absent"; "nostat" (os.Lstat fails: the FileInfo is
\* nil); "file"; "unreadable" (a directory that cannot be opened or listed);
\* "dir" (a listable directory whose scan yields n records)
Kinds ==
    {[kind |-> k, n |-> 0] : k \in {"absent", "nostat", "file", "unreadable"}}
        \cup {[kind |-> "dir", n |-> c] : c \in 0..MaxRecs}

\* filepath.Walk reaches p: it exists and every directory above it was listed
RECURSIVE Visible(_, _)
Visible(f, p) ==
    IF p = "" THEN TRUE
    ELSE /\ f[p].kind # "absent"
         /\ f[Parent(p)].kind = "dir"
         /\ Visible(f, Parent(p))

\* the index of the next entry the walk visits after position pos, 0 if none
NextVisit(pos) ==
    LET later == {j \in (pos + 1)..Len(WalkOrder) : Visible(fs, WalkOrder[j])}
    IN  IF later = {} THEN 0 ELSE CHOOSE j \in later : \A k \in later : j <= k

\* ScanDirectoryForPackages(path, ...): an error unless the directory can be
\* opened and listed, else the index with its number of records
ScanResult(p) ==
    IF fs[p].kind = "dir" THEN [err |-> FALSE, n |-> fs[p].n]
                          ELSE [err |-> TRUE, n |-> 0]

\* muxPath := path[len(*rootName):]; if muxPath == "" { muxPath = "/" }
MuxPath(p) == IF p = "" THEN "/" ELSE p

\* http.ServeMux.Handle for each registration of regs in turn: it panics on a
\* pattern that is registered already
RECURSIVE HandleAll(_, _)
HandleAll(m, regs) ==
    IF regs = <<>> THEN [mux |-> m, panic |-> FALSE]
    ELSE IF \E e \in m : e.pattern = Head(regs).pattern
         THEN [mux |-> m, panic |-> TRUE]
         ELSE HandleAll(m \cup {Head(regs)}, Tail(regs))

\* the registrations of AttachHttpHandler(mux, packages, prefix, ...)
RepoHandlers(prefix, p) ==
    << [pattern |-> prefix \o "/",                handler |-> "index",    dir |-> p],
       [pattern |-> prefix \o "/Packages",        handler |-> "packages", dir |-> p],
       [pattern |-> prefix \o "/Packages.gz",     handler |-> "gz",       dir |-> p],
       [pattern |-> prefix \o "/Packages.stamps", handler |-> "stamps",   dir |-> p] >>

MainInit ==
    /\ dump \in BOOLEAN
    /\ bindOk \in BOOLEAN
    /\ tls \in {"off", "ok", "bad"}
    /\ fs \in [Paths -> Kinds]
    /\ fs[""].kind # "absent"
    /\ \A p \in Paths \ {""} : ~Visible(fs, p) => fs[p].kind = "absent"
    \* -dump neither listens nor looks below the root
    /\ dump => bindOk /\ tls = "off" /\ \A p \in Paths \ {""} : fs[p].kind = "absent"
    /\ ~bindOk => tls = "off"
    /\ mainPc = "start"
    /\ walkPos = 0
    /\ mux = {}
    /\ indices = <<>>
    /\ scanLog = {}
    /\ errMsg = "none"
    /\ mainExit = -1

MainIdle ==
    /\ dump = FALSE /\ bindOk = FALSE /\ tls = "off"
    /\ fs = [p \in Paths |-> [kind |-> "absent", n |-> 0]]
    /\ mainPc = "idle" /\ walkPos = 0 /\ mux = {} /\ indices = <<>>
    /\ scanLog = {} /\ errMsg = "none" /\ mainExit = -1

\* -dump: the scan of the root fails: error message, os.Exit(2)
DumpScanErr ==
    /\ mainPc = "start" /\ dump
    /\ ScanResult("").err
    /\ errMsg' = "error"
    /\ mainExit' = 2
    /\ mainPc' = "exited"
    /\ UNCHANGED <<dump, bindOk, tls, fs, walkPos, mux, indices, scanLog>>
    /\ UNCHANGED notMain

\* -dump: the package list is written to stdout, main returns
DumpScanOk ==
    /\ mainPc = "start" /\ dump
    /\ ~ScanResult("").err
    /\ mainExit' = 0
    /\ mainPc' = "exited"
    /\ UNCHANGED <<dump, bindOk, tls, fs, walkPos, mux, indices, scanLog, errMsg>>
    /\ UNCHANGED notMain

\* net.Listen fails: error message, os.Exit(1)
ListenErr ==
    /\ mainPc = "start" /\ ~dump
    /\ ~bindOk
    /\ errMsg' = "error"
    /\ mainExit' = 1
    /\ mainPc' = "exited"
    /\ UNCHANGED <<dump, bindOk, tls, fs, walkPos, mux, indices, scanLog>>
    /\ UNCHANGED notMain

ListenOk ==
    /\ mainPc = "start" /\ ~dump
    /\ bindOk
    /\ mainPc' = "tls"
    /\ UNCHANGED <<dump, bindOk, tls, fs, walkPos, mux, indices, scanLog, errMsg,
                   mainExit>>
    /\ UNCHANGED notMain

\* initTLS fails: error message, os.Exit(2)
InitTLSErr ==
    /\ mainPc = "tls" /\ tls = "bad"
    /\ errMsg' = "error"
    /\ mainExit' = 2
    /\ mainPc' = "exited"
    /\ UNCHANGED <<dump, bindOk, tls, fs, walkPos, mux, indices, scanLog>>
    /\ UNCHANGED notMain

\* no TLS, or initTLS succeeds: filepath.Walk starts
InitTLSOk ==
    /\ mainPc = "tls" /\ tls # "bad"
    /\ mainPc' = "walk"
    /\ UNCHANGED <<dump, bindOk, tls, fs, walkPos, mux, indices, scanLog, errMsg,
                   mainExit>>
    /\ UNCHANGED notMain

\* the callback is called with a nil FileInfo (os.Lstat failed): fi.IsDir()
\* is a nil dereference, the process panics (exit status 2)
WalkNilInfo ==
    /\ mainPc = "walk" /\ NextVisit(walkPos) # 0
    /\ fs[WalkOrder[NextVisit(walkPos)]].kind = "nostat"
    /\ walkPos' = NextVisit(walkPos)
    /\ errMsg' = "panic"
    /\ mainExit' = 2
    /\ mainPc' = "exited"
    /\ UNCHANGED <<dump, bindOk, tls, fs, mux, indices, scanLog>>
    /\ UNCHANGED notMain

\* if !fi.IsDir() { return nil }
WalkNotDir ==
    /\ mainPc = "walk" /\ NextVisit(walkPos) # 0
    /\ fs[WalkOrder[NextVisit(walkPos)]].kind = "file"
    /\ walkPos' = NextVisit(walkPos)
    /\ UNCHANGED <<dump, bindOk, tls, fs, mainPc, mux, indices, scanLog, errMsg,
                   mainExit>>
    /\ UNCHANGED notMain

\* the scan of the directory fails: log.Printf("error: %v", err); return nil
WalkScanErr ==
    /\ mainPc = "walk" /\ NextVisit(walkPos) # 0
    /\ LET p == WalkOrder[NextVisit(walkPos)]
       IN  /\ fs[p].kind \in {"unreadable", "dir"}
           /\ ScanResult(p).err
           /\ scanLog' = scanLog \cup {p}
    /\ walkPos' = NextVisit(walkPos)
    /\ UNCHANGED <<dump, bindOk, tls, fs, mainPc, mux, indices, errMsg, mainExit>>
    /\ UNCHANGED notMain

\* a directory without packages:
\* rootMuxer.Handle(muxPath, http.FileServer(http.Dir(path)))
WalkStatic ==
    /\ mainPc = "walk" /\ NextVisit(walkPos) # 0
    /\ LET p == WalkOrder[NextVisit(walkPos)]
           r == HandleAll(mux, << [pattern |-> MuxPath(p), handler |-> "files",
                                   dir |-> p] >>)
       IN  /\ fs[p].kind = "dir"
           /\ ~ScanResult(p).err /\ ScanResult(p).n = 0
           /\ mux' = r.mux
           /\ IF r.panic
              THEN errMsg' = "panic" /\ mainExit' = 2 /\ mainPc' = "exited"
              ELSE UNCHANGED <<errMsg, mainExit, mainPc>>
    /\ walkPos' = NextVisit(walkPos)
    /\ UNCHANGED <<dump, bindOk, tls, fs, indices, scanLog>>
    /\ UNCHANGED notMain

\* a directory with packages: AttachHttpHandler(rootMuxer, packages, muxPath,
\* ...); indices = append(indices, muxPath)
WalkRepo ==
    /\ mainPc = "walk" /\ NextVisit(walkPos) # 0
    /\ LET p == WalkOrder[NextVisit(walkPos)]
           r == HandleAll(mux, RepoHandlers(MuxPath(p), p))
       IN  /\ fs[p].kind = "dir"
           /\ ~ScanResult(p).err /\ ScanResult(p).n > 0
           /\ mux' = r.mux
           /\ IF r.panic
              THEN /\ errMsg' = "panic" /\ mainExit' = 2 /\ mainPc' = "exited"
                   /\ UNCHANGED indices
              ELSE /\ indices' = Append(indices, MuxPath(p))
                   /\ UNCHANGED <<errMsg, mainExit, mainPc>>
    /\ walkPos' = NextVisit(walkPos)
    /\ UNCHANGED <<dump, bindOk, tls, fs, scanLog>>
    /\ UNCHANGED notMain

\* the walk is over: AttachOpkgRepoSnippet(rootMuxer, "/opkg.conf", indices),
\* then http.Serve
WalkEnd ==
    /\ mainPc = "walk" /\ NextVisit(walkPos) = 0
    /\ LET r == HandleAll(mux, << [pattern |-> "/opkg.conf", handler |-> "snippet",
                                   dir |-> ""] >>)
       IN  /\ mux' = r.mux
           /\ IF r.panic
              THEN errMsg' = "panic" /\ mainExit' = 2 /\ mainPc' = "exited"
              ELSE mainPc' = "serving" /\ UNCHANGED <<errMsg, mainExit>>
    /\ UNCHANGED <<dump, bindOk, tls, fs, walkPos, indices, scanLog>>
    /\ UNCHANGED notMain

----------------------------------------------------------------------------
(* AttachHttpHandler and the handlers of Packages, Packages.gz and
   Packages.stamps (x509.go, http part) *)

\* strings.Contains(s, substr)
Contains(s, substr) ==
    \E k \in 0..(Len(s) - Len(substr)) : SubSeq(s, k + 1, k + Len(substr)) = substr

\* strings.HasPrefix(s, prefix)
HasPrefix(s, prefix) ==
    Len(s) >= Len(prefix) /\ SubSeq(s, 1, Len(prefix)) = prefix

\* values of the request header Accept-Encoding; Header.Get gives "" when the
\* header is absent
HeaderSample ==
    { <<>>,
      <<"g", "z", "i", "p">>,
      <<"g", "z", "i">>,
      <<"G", "Z", "I", "P">>,
      <<"d", "e", "f", "l", "a", "t", "e">>,
      <<"d", "e", "f", "l", "a", "t", "e", ",", " ", "g", "z", "i", "p">>,
      <<"g", "z", "i", "p", ",", " ", "d", "e", "f", "l", "a", "t", "e">>,
      <<"x", "-", "g", "z", "i", "p", ";", "q", "=", "0">>,
      <<"g", "z", " ", "i", "p">> }

\* packages.StringTo, gzipper and packages.StampsTo: the documents built from
\* the index
StringTo(index) == [doc |-> "Packages", of |-> index]

Gzip(by, content) == [doc |-> "gzip", by |-> by, of |-> content]

StampsTo(index) == [doc |-> "Packages.stamps", of |-> index]

NoBuffer == [doc |-> "empty"]

NoResponse == [path |-> "none"]

HttpInit ==
    /\ pkgs \in (SUBSET {"a.ipk", "c.ipk", "z.ipk"}) \ {{}}
    /\ gzipper \in {"GzGzipPipe", "GzGolang"}
    /\ attached = FALSE
    /\ packages_content = NoBuffer
    /\ packages_content_gz = NoBuffer
    /\ packages_stamps = NoBuffer
    /\ resp = NoResponse

HttpIdle ==
    /\ pkgs = {} /\ gzipper = "GzGzipPipe" /\ attached = FALSE
    /\ packages_content = NoBuffer /\ packages_content_gz = NoBuffer
    /\ packages_stamps = NoBuffer /\ resp = NoResponse

\* AttachHttpHandler: the three buffers are filled and the handlers registered
AttachHttpHandler ==
    /\ ~attached
    /\ packages_content' = StringTo(pkgs)
    /\ packages_content_gz' = Gzip(gzipper, StringTo(pkgs))
    /\ packages_stamps' = StampsTo(pkgs)
    /\ attached' = TRUE
    /\ UNCHANGED <<pkgs, gzipper, resp>>
    /\ UNCHANGED notHttp

\* mutant: gzip is looked for at the start of the header value only
packages_handler_prefix(acceptEncoding) ==
    IF ~HasPrefix(acceptEncoding, <<"g", "z", "i", "p">>)
    THEN [body |-> packages_content, ContentType |-> "", ContentEncoding |-> ""]
    ELSE [body |-> packages_content_gz, ContentType |-> "text/plain",
          ContentEncoding |-> "gzip"]

\* packages_handler: the response to a request with the given value of
\* Accept-Encoding (ContentType "" is left to http.ServeContent)
packages_handler(acceptEncoding) ==
    IF ~Contains(acceptEncoding, <<"g", "z", "i", "p">>)
    THEN [body |-> packages_content, ContentType |-> "", ContentEncoding |-> ""]
    ELSE [body |-> packages_content_gz, ContentType |-> "text/plain",
          ContentEncoding |-> "gzip"]

\* a request to <prefix>/Packages
ServePackages ==
    /\ attached
    /\ \E h \in HeaderSample :
         resp' = [path |-> "Packages", AcceptEncoding |-> h,
                  reply |-> packages_handler(h)]
    /\ UNCHANGED <<pkgs, gzipper, attached, packages_content, packages_content_gz,
                   packages_stamps>>
    /\ UNCHANGED notHttp

\* a request to <prefix>/Packages.gz
ServePackagesGz ==
    /\ attached
    /\ \E h \in HeaderSample :
         resp' = [path |-> "Packages.gz", AcceptEncoding |-> h,
                  reply |-> [body |-> packages_content_gz, ContentType |-> "",
                             ContentEncoding |-> ""]]
    /\ UNCHANGED <<pkgs, gzipper, attached, packages_content, packages_content_gz,
                   packages_stamps>>
    /\ UNCHANGED notHttp

\* a request to <prefix>/Packages.stamps
ServePackagesStamps ==
    /\ attached
    /\ \E h \in HeaderSample :
         resp' = [path |-> "Packages.stamps", AcceptEncoding |-> h,
                  reply |-> [body |-> packages_stamps, ContentType |-> "",
                             ContentEncoding |-> ""]]
    /\ UNCHANGED <<pkgs, gzipper, attached, packages_content, packages_content_gz,
                   packages_stamps>>
    /\ UNCHANGED notHttp

----------------------------------------------------------------------------
(* Specifications *)

\* one scan of one directory
Init == ScanInit /\ IdIdle /\ PrintIdle /\ MainIdle /\ HttpIdle

Next ==
    \/ OpenFail
    \/ ReaddirFail
    \/ OpenOk
    \/ LoopSkip
    \/ HireSend
    \/ HireAdd
    \/ Go
    \/ LoopEnd
    \/ Wait
    \/ \E n \in NameSample : ParseOk(n)
    \/ \E n \in NameSample : ParseErr(n)
    \/ \E n \in NameSample : Lock(n)
    \/ \E n \in NameSample : MapRead(n)
    \/ \E n \in NameSample : MapWrite(n)
    \/ \E n \in NameSample : Unlock(n)
    \/ \E n \in NameSample : ReleaseDone(n)
    \/ \E n \in NameSample : ReleaseRecv(n)

Spec == Init /\ [][Next]_vars

\* the Go scheduler keeps running some goroutine while one can take a step
FairSpec ==
    /\ Init /\ [][Next]_vars
    /\ WF_vars(Next)

\* the client id of one certificate subject
IdSpecInit == IdInit /\ ScanIdle /\ PrintIdle /\ MainIdle /\ HttpIdle

IdNext == ClientIdCall

SpecId == IdSpecInit /\ [][IdNext]_vars

\* kellner -client-id-for FILE
PrintSpecInit == PrintInit /\ ScanIdle /\ IdIdle /\ MainIdle /\ HttpIdle

PrintNext ==
    \/ ReadFileErr
    \/ ReadFileOk
    \/ DecodeNil
    \/ DecodeSkip
    \/ ParseCertificateErr
    \/ ParseCertificateOk
    \/ PrintExit

SpecPrint == PrintSpecInit /\ [][PrintNext]_vars

\* the startup of the server, or kellner -dump
MainSpecInit == MainInit /\ ScanIdle /\ IdIdle /\ PrintIdle /\ HttpIdle

MainNext ==
    \/ DumpScanErr
    \/ DumpScanOk
    \/ ListenErr
    \/ ListenOk
    \/ InitTLSErr
    \/ InitTLSOk
    \/ WalkNilInfo
    \/ WalkNotDir
    \/ WalkScanErr
    \/ WalkStatic
    \/ WalkRepo
    \/ WalkEnd

SpecMain == MainSpecInit /\ [][MainNext]_vars

\* one package directory being served
HttpSpecInit == HttpInit /\ ScanIdle /\ IdIdle /\ PrintIdle /\ MainIdle

HttpNext ==
    \/ AttachHttpHandler
    \/ ServePackages
    \/ ServePackagesGz
    \/ ServePackagesStamps

SpecHttp == HttpSpecInit /\ [][HttpNext]_vars

----------------------------------------------------------------------------
(* Properties of the scan *)

\* the entries the loop dispatches a task for
IpkEntries == {n \in Range(entries) : IsIpk(n)}

\* tasks that have been started by Hire and have not yet begun Release
RunningPcs == {"parse", "lock", "read", "write", "unlock"}

Running ==
    Cardinality({n \in NameSample : task[n] \in RunningPcs})
        + (IF pcMain = "go" THEN 1 ELSE 0)

\* the scan loop is blocked in Hire on a full channel
HireBlocked ==
    /\ pcMain = "loop" /\ idx <= Len(entries)
    /\ IsIpk(entries[idx])
    /\ worker >= nworkers

\* C1: the number of tasks that have returned from Hire() and have not yet
\* started Release() never exceeds the pool's limit
C1_AtMostK == Running <= nworkers

C1_Witness == HireBlocked /\ nworkers >= 2 /\ Running = nworkers

\* C2: when ScanDirectoryForPackages has returned, every dispatched task has
\* inserted its record or failed, and no later step writes the Entries map
C2_FrozenAfterReturn ==
    /\ [](pcMain = "ret" /\ retErr = "nil" =>
            \A n \in IpkEntries : n \in Entries \/ n \in logged)
    /\ [][pcMain = "ret" => Entries' = Entries]_vars

C2_Witness ==
    /\ pcMain = "ret" /\ Entries # {}
    /\ \E n \in NameSample : task[n] = "recv"

\* C3: a listable directory yields a nil error and an index whose keys are
\* exactly the .ipk files that parse; no insert is lost, and no failed or
\* non-.ipk file is ever a key
C3_ExactIndex ==
    /\ Entries \subseteq {n \in IpkEntries : n \in parseOk}
    /\ \A n \in NameSample :
         task[n] \in {"unlock", "release", "recv", "exit"} /\ n \in parseOk
            => n \in Entries
    /\ (pcMain = "ret" /\ dirState = "ok" =>
            retErr = "nil" /\ Entries = {n \in IpkEntries : n \in parseOk})

C3_Witness ==
    /\ pcMain = "ret" /\ nworkers >= 2
    /\ Cardinality(Entries) >= 2
    /\ logged # {}

\* C4: under fair scheduling a blocked Hire() is eventually unblocked, every
\* task ends having released its slot, and the scan returns
C4_Terminates ==
    /\ HireBlocked ~> ~HireBlocked
    /\ <>[](/\ pcMain = "ret"
            /\ worker = 0
            /\ \A n \in NameSample : task[n] \in {"none", "exit"})

C4_Witness ==
    /\ pcMain = "ret"
    /\ Cardinality({n \in NameSample : task[n] # "none"}) > nworkers
    /\ logged # {}

\* C9 as claimed: when Wait() returns every task has completed Release() and
\* the channel holds no occupied slot
C9_Original ==
    pcMain = "ret" /\ retErr = "nil" =>
        /\ worker = 0
        /\ \A n \in IpkEntries : task[n] = "exit"

\* C9 amended: when Wait() returns every task has called Done() (the counter
\* is zero); the slots still occupied are those of the tasks that have not yet
\* received from the channel, at most the limit
C9_DoneButSlotsHeld ==
    pcMain = "ret" /\ retErr = "nil" =>
        /\ wg = 0
        /\ \A n \in IpkEntries : task[n] \in {"recv", "exit"}
        /\ worker = Cardinality({n \in NameSample : task[n] = "recv"})
        /\ worker <= nworkers

C9_Witness == pcMain = "ret" /\ nworkers >= 2 /\ worker = nworkers

----------------------------------------------------------------------------
(* Properties of the client id *)

\* the bytes [A-Za-z0-9_-]
Allowed == (48..57) \cup (65..90) \cup (97..122) \cup {95, 45}

\* the key of a recognized object identifier
KeyByOid ==
    [o \in {<<2, 5, 4, 6>>, <<2, 5, 4, 10>>, <<2, 5, 4, 11>>, <<2, 5, 4, 3>>,
            <<2, 5, 4, 5>>, <<2, 5, 4, 7>>, <<2, 5, 4, 8>>, <<2, 5, 4, 9>>,
            <<2, 5, 4, 17>>} |->
        CASE o = <<2, 5, 4, 6>>  -> <<67>>
          [] o = <<2, 5, 4, 10>> -> <<79>>
          [] o = <<2, 5, 4, 11>> -> <<79, 85>>
          [] o = <<2, 5, 4, 3>>  -> <<67, 78>>
          [] o = <<2, 5, 4, 5>>  -> <<83, 78>>
          [] o = <<2, 5, 4, 7>>  -> <<76>>
          [] o = <<2, 5, 4, 8>>  -> <<80>>
          [] o = <<2, 5, 4, 9>>  -> <<83>>
          [] o = <<2, 5, 4, 17>> -> <<80, 67>>]

Recognized(attr) == attr.Type \in DOMAIN KeyByOid

Sanitized(value) ==
    [k \in 1..Len(value) |-> IF value[k] \in Allowed THEN value[k] ELSE 95]

Pair(attr) == KeyByOid[attr.Type] \o <<61>> \o Sanitized(attr.Value)

RECURSIVE CommaJoin(_)
CommaJoin(pairs) ==
    IF pairs = <<>> THEN <<>>
    ELSE IF Len(pairs) = 1 THEN pairs[1]
    ELSE pairs[1] \o <<44>> \o CommaJoin(Tail(pairs))

\* the identity the specification describes
ExpectedId(subj) ==
    LET kept == SelectSeq(subj, Recognized)
    IN  CommaJoin([k \in 1..Len(kept) |-> Pair(kept[k])])

\* C5: clientIdByName returns the comma-join, in subject order, of
\* key=sanitize(value) for the attributes with a table oid; the result has no
\* leading, trailing or doubled comma, only bytes of [A-Za-z0-9_=,-], and is
\* empty when no attribute is recognized
C5_ClientId ==
    idPc = "done" =>
        /\ clientId = ExpectedId(subject)
        /\ \A k \in 1..Len(clientId) : clientId[k] \in Allowed \cup {61, 44}
        /\ clientId # <<>> => clientId[1] # 44 /\ clientId[Len(clientId)] # 44
        /\ \A k \in 1..(Len(clientId) - 1) : ~(clientId[k] = 44 /\ clientId[k + 1] = 44)
        /\ ((\A k \in 1..Len(subject) : ~Recognized(subject[k])) => clientId = <<>>)

\* two recognized attributes whose values hold bytes to replace
C5_Witness ==
    /\ idPc = "done"
    /\ Len(subject) = 2
    /\ \A k \in 1..2 : /\ Recognized(subject[k])
                       /\ \E b \in 1..Len(subject[k].Value) :
                              subject[k].Value[b] \notin Allowed
    /\ \E k \in 1..Len(clientId) : clientId[k] = 44

----------------------------------------------------------------------------
(* Properties of printClientIdTo *)

\* the blocks of type CERTIFICATE without headers
CertBlocks == SelectSeq(certFile.blocks,
                        LAMBDA b : b.Type = "CERTIFICATE" /\ b.Headers = 0)

\* C10 as claimed: either one line, the identity of the first CERTIFICATE
\* block without headers, is written and nil returned, or nothing is written
\* and an error returned, so that the exit status is 1 whenever no identity
\* was printed
C10_Original ==
    exitStatus # -1 =>
        \/ /\ certFile.readable /\ CertBlocks # <<>> /\ CertBlocks[1].parses
           /\ written = <<ExpectedId(CertBlocks[1].Subject)>>
           /\ printErr = "nil" /\ exitStatus = 0
        \/ /\ ~(certFile.readable /\ CertBlocks # <<>> /\ CertBlocks[1].parses)
           /\ written = <<>>
           /\ printErr = "err" /\ exitStatus = 1

----------------------------------------------------------------------------
(* Properties of the startup *)

\* the root given by -root cannot be read: it does not exist, or it is a
\* directory that cannot be opened or listed
RootUnreadable == fs[""].kind \in {"nostat", "unreadable"}

\* C6 as claimed: if the root cannot be read the process ends with a non-zero
\* exit status after an error message and never serves, with and without -dump
C6_Original ==
    mainPc # "idle" /\ RootUnreadable =>
        /\ mainPc # "serving"
        /\ (mainPc = "exited" => mainExit # 0 /\ errMsg # "none")

\* the directories the walk has to handle
WalkDirs == {p \in Paths : Visible(fs, p) /\ fs[p].kind \in {"unreadable", "dir"}}

\* directory p was handled as its own scan outcome asks
HandledByOutcome(p) ==
    LET mine == {e \in mux : e.dir = p /\ e.handler # "snippet"}
    IN  IF ScanResult(p).err
        THEN p \in scanLog /\ mine = {} /\ MuxPath(p) \notin Range(indices)
        ELSE IF ScanResult(p).n = 0
        THEN /\ mine = {[pattern |-> MuxPath(p), handler |-> "files", dir |-> p]}
             /\ MuxPath(p) \notin Range(indices)
        ELSE /\ mine = Range(RepoHandlers(MuxPath(p), p))
             /\ MuxPath(p) \in Range(indices)

\* C7 as claimed: whatever the directories under a readable root hold (every
\* entry being one os.Lstat can read), the walk is never stopped: when the
\* startup is past the walk, or the process has ended, every directory has
\* been handled as its own scan outcome asks
C7_Original ==
    (/\ ~dump /\ bindOk /\ tls # "bad"
     /\ fs[""].kind = "dir"
     /\ (\A p \in Paths : fs[p].kind # "nostat")
     /\ mainPc \in {"serving", "exited"})
    =>
    (\A p \in WalkDirs : HandledByOutcome(p))

----------------------------------------------------------------------------
(* Properties of the Packages handler *)

\* the header value contains "gzip"
HasGzip(h) ==
    \E k \in 1..(Len(h) - 3) :
        h[k] = "g" /\ h[k + 1] = "z" /\ h[k + 2] = "i" /\ h[k + 3] = "p"

====
